---- MODULE Spec2Model ----
(***************************************************************************)
(* Model of the four-phase question-answering pipeline of the fraud        *)
(* chatbot: app/ui/streamlit_app.py (safe_json_loads, phase1_route,        *)
(* phase2_db, phase3_rag, phase4_final, run_pipeline), the generation      *)
(* client app/core/llm_inference.py, the citation helper of                *)
(* app/core/rag.py and bootstrap_db of app/core/db.py.                     *)
(*                                                                         *)
(* Generated text is a sequence of tokens; a JSON value is a record of one *)
(* uniform shape [t, s, n, l]; numbers are kept in tenths (0.9 is 9).      *)
(***************************************************************************)
EXTENDS Integers, Sequences, FiniteSets, TLC

\* ------------------------------------------------------------------------
\* JSON values as Python sees them after json.loads
\* ------------------------------------------------------------------------
JNull == [t |-> "null", s |-> "", n |-> 0, l |-> <<>>]

JStr(x) == [t |-> "str", s |-> x, n |-> 0, l |-> <<>>]

JNum(x) == [t |-> "num", s |-> "", n |-> x, l |-> <<>>]

JList(xs) == [t |-> "list", s |-> "", n |-> 0, l |-> xs]

\* Python truthiness of a parsed value: None, "", 0 / 0.0 and [] are falsy.
Truthy(v) ==
    CASE v.t = "null" -> FALSE
      [] v.t = "str"  -> v.s # ""
      [] v.t = "num"  -> v.n # 0
      [] v.t = "list" -> v.l # <<>>
      [] OTHER        -> TRUE

\* The strings float() accepts, with their value in tenths.
NumericText == [x \in {"0.5", "1"} |-> IF x = "0.5" THEN 5 ELSE 10]

\* float(x): a number converts, a numeric string converts, any other string
\* raises ValueError, any other type raises TypeError.
PyFloat(v) ==
    CASE v.t = "num" -> [exc |-> "none", n |-> v.n]
      [] v.t = "str" ->
            IF v.s \in DOMAIN NumericText
            THEN [exc |-> "none", n |-> NumericText[v.s]]
            ELSE [exc |-> "ValueError", n |-> 0]
      [] OTHER -> [exc |-> "TypeError", n |-> 0]

\* float(x or 0.0)
FloatOrZero(v) == IF Truthy(v) THEN PyFloat(v) ELSE [exc |-> "none", n |-> 0]

\* ------------------------------------------------------------------------
\* Generated text: tokens
\* ------------------------------------------------------------------------
Tok(c) == [c |-> c, k |-> "", v |-> JNull]

LB == Tok("{")

RB == Tok("}")

LSQ == Tok("[")

RSQ == Tok("]")

WS == Tok("ws")

TXT == Tok("txt")

\* "key": value inside an object (the separating comma goes with it)
Mem(k, v) == [c |-> "mem", k |-> k, v |-> v]

\* a scalar value standing alone or as a list element
Val(v) == [c |-> "val", k |-> "", v |-> v]

\* str.strip(): whitespace removed at both ends
RECURSIVE LStrip(_)
LStrip(s) == IF s # <<>> /\ Head(s).c = "ws" THEN LStrip(Tail(s)) ELSE s

RECURSIVE RStrip(_)
RStrip(s) ==
    IF s # <<>> /\ s[Len(s)].c = "ws" THEN RStrip(SubSeq(s, 1, Len(s) - 1)) ELSE s

Strip(s) == RStrip(LStrip(s))

\* ------------------------------------------------------------------------
\* json.loads on a token sequence
\* ------------------------------------------------------------------------
RECURSIVE SkipWs(_, _)
SkipWs(s, i) == IF i <= Len(s) /\ s[i].c = "ws" THEN SkipWs(s, i + 1) ELSE i

RECURSIVE ParseValue(_, _)
RECURSIVE ParseMembers(_, _)
RECURSIVE ParseElements(_, _)

\* Index after the JSON value that starts at i, 0 when there is none.
ParseValue(s, i) ==
    LET j == SkipWs(s, i) IN
    IF j > Len(s) THEN 0
    ELSE CASE s[j].c = "val" -> j + 1
           [] s[j].c = "{"   -> ParseMembers(s, j + 1)
           [] s[j].c = "["   -> ParseElements(s, j + 1)
           [] OTHER          -> 0

ParseMembers(s, i) ==
    LET j == SkipWs(s, i) IN
    IF j > Len(s) THEN 0
    ELSE CASE s[j].c = "}"   -> j + 1
           [] s[j].c = "mem" -> ParseMembers(s, j + 1)
           [] OTHER          -> 0

ParseElements(s, i) ==
    LET j == SkipWs(s, i) IN
    IF j > Len(s) THEN 0
    ELSE IF s[j].c = "]" THEN j + 1
    ELSE LET n == ParseValue(s, j) IN
         IF n = 0 THEN 0 ELSE ParseElements(s, n)

\* json.loads(s): ok is FALSE when it raises; dict tells a JSON object from
\* any other JSON value; obj holds the members of the object.
JsonLoads(s) ==
    LET e  == ParseValue(s, 1)
        ok == e # 0 /\ SkipWs(s, e) > Len(s)
        d  == ok /\ s[SkipWs(s, 1)].c = "{"
    IN [ok |-> ok, dict |-> d,
        obj |-> IF d THEN SelectSeq(s, LAMBDA t : t.c = "mem") ELSE <<>>]

\* str.find / str.rfind, 1-based, 0 when absent
RECURSIVE Find(_, _, _)
Find(s, c, i) ==
    IF i > Len(s) THEN 0 ELSE IF s[i].c = c THEN i ELSE Find(s, c, i + 1)

RECURSIVE RFind(_, _, _)
RFind(s, c, i) ==
    IF i < 1 THEN 0 ELSE IF s[i].c = c THEN i ELSE RFind(s, c, i - 1)

NoObj == [some |-> FALSE, obj |-> <<>>]

\* safe_json_loads(raw): the parsed object, or None
\* the dict of a json.loads result, None when it raised or gave no dict
DictOrNone(parsed) ==
    IF parsed.ok /\ parsed.dict THEN [some |-> TRUE, obj |-> parsed.obj] ELSE NoObj

\* lines 51-60: the window from the first "{" to the last "}"
BraceWindow(r, start, end) ==
    IF start # 0 /\ end # 0 /\ end > start
    THEN DictOrNone(JsonLoads(SubSeq(r, start, end)))
    ELSE NoObj

\* LoadsStripped giving up when the direct parse raises
LoadsStripped_NoWindow(r, direct) ==
    IF r = <<>> THEN NoObj
    ELSE IF direct.ok THEN DictOrNone(direct)
    ELSE NoObj

\* lines 41-60, r the stripped text: the direct parse decides when it does
\* not raise, the brace window is tried when it raises
LoadsStripped(r, direct) ==
    IF r = <<>> THEN NoObj
    ELSE IF direct.ok THEN DictOrNone(direct)
    ELSE BraceWindow(r, Find(r, "{", 1), RFind(r, "}", Len(r)))

LoadsTrimmed(r) == LoadsStripped(r, JsonLoads(r))

safe_json_loads(raw) == LoadsTrimmed(Strip(raw))

\* safe_json_loads(raw) or {}
ObjOrEmpty(raw) == safe_json_loads(raw).obj

\* dict.get(key, default): the last member of that key wins
RECURSIVE DictGet(_, _, _)
DictGet(obj, key, default) ==
    IF obj = <<>> THEN default
    ELSE IF obj[Len(obj)].k = key THEN obj[Len(obj)].v
    ELSE DictGet(SubSeq(obj, 1, Len(obj) - 1), key, default)

\* ------------------------------------------------------------------------
\* Text-generation client
\* ------------------------------------------------------------------------
\* A backend response: the call throws, or a completion with or without
\* choices whose first message has content, reasoning_content and the
\* arguments of a first tool call (tool = FALSE: no tool call).
Response(throws, choices, content, reasoning, tool, args) ==
    [throws |-> throws, choices |-> choices, content |-> content,
     reasoning |-> reasoning, tool |-> tool, args |-> args]

\* FirstNonBlank looking at the reasoning field before the content
FirstNonBlank_ReasoningFirst(content, reasoning, tool, args) ==
    IF reasoning # <<>> THEN reasoning
    ELSE IF content # <<>> THEN content
    ELSE IF tool /\ args # <<>> THEN args
    ELSE <<>>

\* generate_completion(messages, ...): the text returned, or the failure
\* lines 41-69, with content, reasoning and args already stripped
FirstNonBlank(content, reasoning, tool, args) ==
    IF content # <<>> THEN content
    ELSE IF reasoning # <<>> THEN reasoning
    ELSE IF tool /\ args # <<>> THEN args
    ELSE <<>>

generate_completion(resp) ==
    IF resp.throws THEN [exc |-> "BackendError", text |-> <<>>]
    ELSE IF ~resp.choices THEN [exc |-> "none", text |-> <<>>]
    ELSE [exc |-> "none",
          text |-> FirstNonBlank(Strip(resp.content), Strip(resp.reasoning),
                                 resp.tool, Strip(resp.args))]

\* The responses a backend can give when the model writes one of `texts`.
Responses(texts) ==
    {Response(FALSE, TRUE, t, <<>>, FALSE, <<>>) : t \in texts}
    \cup {Response(TRUE, FALSE, <<>>, <<>>, FALSE, <<>>),
          Response(FALSE, FALSE, <<>>, <<>>, FALSE, <<>>),
          Response(FALSE, TRUE, <<WS>>, <<>>, TRUE, <<WS>>)}
    \cup {Response(FALSE, TRUE, <<>>, <<WS>> \o t, FALSE, <<>>) : t \in texts}
    \cup {Response(FALSE, TRUE, <<>>, <<WS>>, TRUE, t \o <<WS>>) : t \in texts}

\* ------------------------------------------------------------------------
\* Bounds of the model
\* ------------------------------------------------------------------------
\* rows the bootstrap loaded from the CSV
CsvRows == 8

\* rows the store file can hold before the engine reports "disk is full"
MaxRows == 9

\* ------------------------------------------------------------------------
\* Tabular store: the transactions table behind sqlite3
\* ------------------------------------------------------------------------
\* rows[:50] of the preview
PreviewLimit == 50

CsvTable == [exists |-> TRUE, rows |-> [i \in 1..CsvRows |-> i]]

SelectAll == "SELECT * FROM transactions"

SelectLimit == "SELECT * FROM transactions LIMIT 50"

SelectCross == "SELECT a.* FROM transactions a, transactions b"

SelectBad == "SELEC * FROM transactions"

DeleteAll == "DELETE FROM transactions"

InsertRow == "INSERT INTO transactions (amt) VALUES (0)"

UpdateAll == "UPDATE transactions SET amt = 0"

DropTable == "DROP TABLE transactions"

TwoStatements == "SELECT 1; DELETE FROM transactions"

\* a query text of whitespace only
BlankSql == " "

\* Statement form of a query text, as the engine reads it.
SqlKind(q) ==
    CASE q \in {SelectAll, SelectLimit, SelectCross} -> "select"
      [] q = DeleteAll     -> "delete"
      [] q = InsertRow     -> "insert"
      [] q = UpdateAll     -> "update"
      [] q = DropTable     -> "drop"
      [] q = TwoStatements -> "multi"
      [] q = BlankSql      -> "blank"
      [] OTHER             -> "invalid"

Min(a, b) == IF a < b THEN a ELSE b

\* the rows of a.* over the join of the table with itself: each row once per
\* row of the table, in the table's order
CrossRows(rows) ==
    [i \in 1..(Len(rows) * Len(rows)) |-> rows[((i - 1) \div Len(rows)) + 1]]

Outcome(exc, msg, rows, st, ran) ==
    [exc |-> exc, msg |-> msg, rows |-> rows, store |-> st, ran |-> ran]

NoTable == "no such table: transactions"

\* with get_connection(db_path) as conn: conn.execute(sql).fetchall()
\* The outcomes of handing `sql` to the engine over store `st`: the exception
\* raised if any, the rows fetched, the store after the with-block committed,
\* and whether the engine ran the statement.  A statement that is not a str
\* is refused by the binding; two statements in one text are refused before
\* anything runs, with sqlite3.Warning or (newer runtimes) a sqlite3.Error;
\* a text without any statement is accepted and gives no rows.
Execute(sql, st) ==
    IF sql.t # "str" THEN {Outcome("TypeError", "", <<>>, st, FALSE)}
    ELSE LET kind == SqlKind(sql.s) IN
      CASE kind = "invalid" ->
             {Outcome("sqlite3.Error", "near \"SELEC\": syntax error", <<>>, st, FALSE)}
        [] kind = "multi" ->
             {Outcome("sqlite3.Warning", "", <<>>, st, FALSE),
              Outcome("sqlite3.Error", "You can only execute one statement at a time.",
                      <<>>, st, FALSE)}
        [] kind = "blank" ->
             {Outcome("none", "", <<>>, st, FALSE)}
        [] kind = "drop" ->
             IF st.exists
             THEN {Outcome("none", "", <<>>, [exists |-> FALSE, rows |-> <<>>], TRUE)}
             ELSE {Outcome("sqlite3.Error", NoTable, <<>>, st, FALSE)}
        [] ~st.exists ->
             {Outcome("sqlite3.Error", NoTable, <<>>, st, FALSE)}
        [] kind = "select" ->
             {Outcome("none", "",
                      CASE sql.s = SelectLimit ->
                               SubSeq(st.rows, 1, Min(Len(st.rows), 50))
                        [] sql.s = SelectCross -> CrossRows(st.rows)
                        [] OTHER -> st.rows,
                      st, TRUE)}
        [] kind = "delete" ->
             {Outcome("none", "", <<>>, [st EXCEPT !.rows = <<>>], TRUE)}
        [] kind = "update" ->
             {Outcome("none", "", <<>>,
                      [st EXCEPT !.rows = [i \in 1..Len(st.rows) |-> 0]], TRUE)}
        [] OTHER ->
             IF Len(st.rows) < MaxRows
             THEN {Outcome("none", "", <<>>, [st EXCEPT !.rows = Append(st.rows, 0)], TRUE)}
             ELSE {Outcome("sqlite3.Error", "database or disk is full", <<>>, st, FALSE)}

\* ------------------------------------------------------------------------
\* Texts the model may generate in each phase
\* ------------------------------------------------------------------------
Routes == {"db", "rag", "both", "general"}

Object(members) == <<LB>> \o members \o <<RB>>

RouterTexts ==
    {Object(<<Mem("route", JStr(r)), Mem("confidence", JNum(9)), Mem("reason", JStr("why"))>>)
        : r \in Routes}
    \cup
    {<<TXT, WS, TXT>>,
     <<TXT, WS>> \o Object(<<Mem("route", JStr("rag")), Mem("confidence", JStr("0.5"))>>)
                 \o <<WS, TXT>>,
     <<LSQ>> \o Object(<<Mem("route", JStr("db"))>>) \o <<RSQ>>,
     Object(<<Mem("confidence", JNum(9)), Mem("reason", JStr("why"))>>),
     Object(<<Mem("route", JStr("sql")), Mem("confidence", JNum(7)), Mem("reason", JStr("why"))>>),
     Object(<<Mem("route", JList(<<"db">>)), Mem("confidence", JNull)>>),
     Object(<<Mem("route", JStr("db")), Mem("confidence", JStr("high"))>>),
     Object(<<Mem("route", JStr("both")), Mem("confidence", JList(<<"1">>))>>)}

QueryTexts ==
    {Object(<<Mem("sql", JStr(q)), Mem("notes", JStr("n"))>>)
        : q \in {SelectAll, SelectLimit, SelectCross, SelectBad, DeleteAll, InsertRow,
                 UpdateAll, DropTable, TwoStatements}}
    \cup
    {Object(<<Mem("sql", JNull), Mem("notes", JStr("UNSUPPORTED: requires external data"))>>),
     Object(<<Mem("sql", JNum(5))>>),
     Object(<<Mem("sql", JStr("")), Mem("notes", JStr("n"))>>),
     Object(<<Mem("sql", JStr(BlankSql)), Mem("notes", JStr("n"))>>),
     <<TXT>>}

RagTexts ==
    {Object(<<Mem("answer", JStr("a")), Mem("notes", JStr("n"))>>),
     <<TXT, WS, TXT>>}

FinalTexts ==
    {Object(<<Mem("answer", JStr("a")), Mem("citations", JList(<<>>)), Mem("notes", JStr("n")),
              Mem("quality_score", JNum(9)), Mem("quality_reason", JStr("q"))>>),
     Object(<<Mem("answer", JStr("a")), Mem("citations", JList(<<"Other.pdf p.9">>)),
              Mem("quality_score", JNum(15))>>),
     Object(<<Mem("answer", JStr("a")), Mem("quality_score", JNum(-2))>>),
     Object(<<Mem("answer", JStr("a")), Mem("quality_score", JStr("good"))>>),
     <<TXT>>}

\* ------------------------------------------------------------------------
\* Phase 1: intent router
\* ------------------------------------------------------------------------
NoRoute == [route |-> "", confidence |-> 0, reason |-> JNull, raw |-> <<>>]

\* NormalizeRoute without the membership test of line 90
NormalizeRoute_NoEnumCheck(v) == IF v.t = "str" THEN v.s ELSE "both"

\* route = obj.get("route", "both"); anything outside the four is "both"
NormalizeRoute(v) == IF v.t = "str" /\ v.s \in Routes THEN v.s ELSE "both"

\* phase1_route(question), the backend answering `resp`
\* lines 89-97: the decision built from the parsed object
RouteDecision(g, obj, conf) ==
    IF g.exc # "none" THEN [exc |-> g.exc, val |-> NoRoute]
    ELSE IF conf.exc # "none" THEN [exc |-> conf.exc, val |-> NoRoute]
    ELSE [exc |-> "none",
          val |-> [route      |-> NormalizeRoute(DictGet(obj, "route", JStr("both"))),
                   confidence |-> conf.n,
                   reason     |-> DictGet(obj, "reason", JStr("fallback")),
                   raw        |-> g.text]]

RouteParsed(g, obj) ==
    RouteDecision(g, obj, FloatOrZero(DictGet(obj, "confidence", JNum(0))))

RouteFromText(g) == RouteParsed(g, ObjOrEmpty(g.text))

phase1_route(resp) == RouteFromText(generate_completion(resp))

\* ------------------------------------------------------------------------
\* Phase 2: query synthesis and execution
\* ------------------------------------------------------------------------
NoRows == [some |-> FALSE, rows |-> <<>>]

NoError == [some |-> FALSE, msg |-> ""]

NoDb == [some |-> FALSE, ok |-> FALSE, sql |-> JNull, notes |-> JNull,
         rows_preview |-> NoRows, error |-> NoError, raw |-> <<>>]

NoExec == [some |-> FALSE, sql |-> JNull, ran |-> FALSE, rows |-> <<>>,
           exc |-> "none", msg |-> ""]

DbOut(ok, sql, notes, preview, error, raw) ==
    [some |-> TRUE, ok |-> ok, sql |-> sql, notes |-> notes,
     rows_preview |-> preview, error |-> error, raw |-> raw]

\* Preview keeping every fetched row
Preview_All(rows) == [some |-> TRUE, rows |-> rows]

\* line 129: preview = [dict(r) for r in rows[:50]]
Preview(rows) == [some |-> TRUE, rows |-> SubSeq(rows, 1, Min(Len(rows), PreviewLimit))]

\* Rejected losing the attempted statement
Rejected_WithoutSql(sql, notes, msg, raw) ==
    DbOut(FALSE, JNull, notes, NoRows, [some |-> TRUE, msg |-> "SQL error: " \o msg], raw)

\* lines 130-138: the result when the store raised sqlite3.Error(msg)
Rejected(sql, notes, msg, raw) ==
    DbOut(FALSE, sql, notes, NoRows, [some |-> TRUE, msg |-> "SQL error: " \o msg], raw)

\* Unsupported reporting the missing query text as an error
Unsupported_AsError(notes, raw) ==
    DbOut(FALSE, JNull, IF Truthy(notes) THEN notes ELSE JStr("No SQL returned"),
          NoRows, [some |-> TRUE, msg |-> "No SQL returned"], raw)

\* lines 113-121: the result when synthesis gave no query text
Unsupported(notes, raw) ==
    DbOut(FALSE, JNull, IF Truthy(notes) THEN notes ELSE JStr("No SQL returned"),
          NoRows, NoError, raw)

\* The statement phase2_db hands to conn.execute: the generated sql, as is.
StatementFor(sql) == sql

\* phase2_db(question, db_path), the backend answering `resp` over store `st`:
\* the possible results, each with the exception that leaves the function (if
\* any), the store afterwards and the statement handed to the engine.
\* lines 113-147: no query text, or the statement executed
QueryResult(g, sql, notes, st) ==
    IF g.exc # "none"
    THEN {[exc |-> g.exc, val |-> NoDb, store |-> st, exec |-> NoExec]}
    ELSE IF ~Truthy(sql)
    THEN {[exc |-> "none",
           val |-> Unsupported(notes, g.text),
           store |-> st, exec |-> NoExec]}
    ELSE {[exc |-> IF o.exc \in {"none", "sqlite3.Error"} THEN "none" ELSE o.exc,
           val |-> CASE o.exc = "none" ->
                          DbOut(TRUE, sql, notes, Preview(o.rows), NoError, g.text)
                     [] o.exc = "sqlite3.Error" ->
                          Rejected(sql, notes, o.msg, g.text)
                     [] OTHER -> NoDb,
           store |-> o.store,
           exec |-> [some |-> TRUE, sql |-> StatementFor(sql), ran |-> o.ran,
                     rows |-> o.rows, exc |-> o.exc, msg |-> o.msg]]
            : o \in Execute(StatementFor(sql), st)}

QueryParsed(g, obj, st) ==
    QueryResult(g, DictGet(obj, "sql", JNull), DictGet(obj, "notes", JStr("")), st)

QueryFromText(g, st) == QueryParsed(g, ObjOrEmpty(g.text), st)

phase2_db(resp, st) == QueryFromText(generate_completion(resp), st)

\* ------------------------------------------------------------------------
\* Phase 3: retrieval and grounded answer
\* ------------------------------------------------------------------------
Hit(text, source, hasPage, page) ==
    [text |-> text, source |-> source, hasPage |-> hasPage, page |-> page]

\* What retrieve_context can return for a question (text, metadata pairs).
HitLists ==
    {<<>>,
     <<Hit("chunk A", "Bhatla.pdf", TRUE, 2)>>,
     <<Hit("chunk A", "Bhatla.pdf", TRUE, 2), Hit("chunk B", "summary.md", FALSE, 0),
       Hit("chunk C", "Bhatla.pdf", TRUE, 2)>>}

\* one citation of format_citations: "<source> p.<page+1>", or the source
Citation(m) ==
    LET src == IF m.source # "" THEN m.source ELSE "document"
    IN IF m.hasPage THEN src \o " p." \o ToString(m.page + 1) ELSE src

\* Dedup keeping every citation
Dedup_KeepAll(cites, out) == out \o cites

RECURSIVE Dedup(_, _)
Dedup(cites, out) ==
    IF cites = <<>> THEN out
    ELSE IF \E i \in 1..Len(out) : out[i] = Head(cites)
         THEN Dedup(Tail(cites), out)
         ELSE Dedup(Tail(cites), Append(out, Head(cites)))

\* format_citations(metas)
format_citations(metas) ==
    Dedup([i \in 1..Len(metas) |-> Citation(metas[i])], <<>>)

\* "\n\n---\n\n".join(t[:1200] for t, _ in hits); the chunks of the model are
\* shorter than 1200 characters
RECURSIVE JoinTexts(_)
JoinTexts(hits) ==
    IF hits = <<>> THEN ""
    ELSE IF Len(hits) = 1 THEN hits[1].text
    ELSE hits[1].text \o "\n\n---\n\n" \o JoinTexts(Tail(hits))

NoRaw == [some |-> FALSE, text |-> <<>>]

NoRag == [some |-> FALSE, ok |-> FALSE, context |-> "", sources |-> <<>>,
          answer |-> JNull, notes |-> JNull, raw |-> NoRaw]

\* RetrievalResult whose ok follows the extraction of the generated answer
RetrievalResult_OkNeedsAnswer(hits, g, obj) ==
    IF hits = <<>>
    THEN [exc |-> "none", calls |-> 0,
          val |-> [some |-> TRUE, ok |-> FALSE, context |-> "", sources |-> <<>>,
                   answer |-> JNull, notes |-> JStr("No relevant context retrieved"),
                   raw |-> NoRaw]]
    ELSE IF g.exc # "none" THEN [exc |-> g.exc, calls |-> 1, val |-> NoRag]
    ELSE [exc |-> "none", calls |-> 1,
          val |-> [some |-> TRUE, ok |-> DictGet(obj, "answer", JNull) # JNull,
                   context |-> JoinTexts(hits),
                   sources |-> format_citations(hits),
                   answer |-> DictGet(obj, "answer", JNull),
                   notes |-> DictGet(obj, "notes", JStr("")),
                   raw |-> [some |-> TRUE, text |-> g.text]]]

\* phase3_rag(question, rag, k) when retrieval returns `hits` and the backend
\* answers `resp`; calls tells whether generate_completion was invoked
RetrievalResult(hits, g, obj) ==
    IF hits = <<>>
    THEN [exc |-> "none", calls |-> 0,
          val |-> [some |-> TRUE, ok |-> FALSE, context |-> "", sources |-> <<>>,
                   answer |-> JNull, notes |-> JStr("No relevant context retrieved"),
                   raw |-> NoRaw]]
    ELSE IF g.exc # "none" THEN [exc |-> g.exc, calls |-> 1, val |-> NoRag]
    ELSE [exc |-> "none", calls |-> 1,
          val |-> [some |-> TRUE, ok |-> TRUE, context |-> JoinTexts(hits),
                   sources |-> format_citations(hits),
                   answer |-> DictGet(obj, "answer", JNull),
                   notes |-> DictGet(obj, "notes", JStr("")),
                   raw |-> [some |-> TRUE, text |-> g.text]]]

RetrievalFromText(hits, g) == RetrievalResult(hits, g, ObjOrEmpty(g.text))

phase3_rag(hits, resp) == RetrievalFromText(hits, generate_completion(resp))

\* ------------------------------------------------------------------------
\* Phase 4: final composer
\* ------------------------------------------------------------------------
Apology == "Maaf, aku belum bisa menyusun jawaban dari evidence yang tersedia."

NoEvDb == [some |-> FALSE, ok |-> FALSE, sql |-> JNull, notes |-> JNull,
           error |-> NoError, rows_preview |-> NoRows]

NoEvRag == [some |-> FALSE, ok |-> FALSE, notes |-> JNull, sources |-> <<>>,
            phase3_answer |-> JNull, context |-> ""]

\* the evidence blob of phase4_final; db and rag are keys of it in any case,
\* holding None (some = FALSE) when the branch produced nothing
Evidence(rt, db, rag) ==
    [keys |-> {"question", "route", "route_confidence", "route_reason", "db", "rag"},
     route |-> rt.route, route_confidence |-> rt.confidence, route_reason |-> rt.reason,
     db  |-> IF db.some
             THEN [some |-> TRUE, ok |-> db.ok, sql |-> db.sql, notes |-> db.notes,
                   error |-> db.error, rows_preview |-> db.rows_preview]
             ELSE NoEvDb,
     rag |-> IF rag.some
             THEN [some |-> TRUE, ok |-> rag.ok, notes |-> rag.notes, sources |-> rag.sources,
                   phase3_answer |-> rag.answer, context |-> rag.context]
             ELSE NoEvRag]

NoFinal == [some |-> FALSE, answer |-> JNull, citations |-> JNull, notes |-> JNull,
            quality_score |-> 0, quality_reason |-> JNull, raw |-> <<>>,
            evidence |-> Evidence(NoRoute, NoDb, NoRag)]

\* x or default
OrElse(v, default) == IF Truthy(v) THEN v ELSE default

\* Backfill letting the retrieval sources win over the composer's citations
Backfill_Overwrite(citations, rag) ==
    IF rag.some /\ rag.sources # <<>> THEN JList(rag.sources) ELSE citations

\* Backfill that never consults the retrieval sources
Backfill_Never(citations, rag) == citations

\* phase4_final(question, route_decision, db_out, rag_out), the backend
\* answering `resp`
\* lines 241-242: citations taken from the retrieval sources when the
\* composer gave none
Backfill(citations, rag) ==
    IF ~Truthy(citations) /\ rag.some /\ rag.sources # <<>>
    THEN JList(rag.sources) ELSE citations

\* lines 233-252
FinalAnswer(rt, db, rag, g, obj, score) ==
    IF g.exc # "none" THEN [exc |-> g.exc, val |-> NoFinal]
    ELSE IF score.exc # "none" THEN [exc |-> score.exc, val |-> NoFinal]
    ELSE [exc |-> "none",
          val |-> [some |-> TRUE,
                   answer |-> OrElse(DictGet(obj, "answer", JNull), JStr(Apology)),
                   citations |-> Backfill(OrElse(DictGet(obj, "citations", JNull),
                                                 JList(<<>>)), rag),
                   notes |-> OrElse(DictGet(obj, "notes", JNull), JStr("")),
                   quality_score |-> score.n,
                   quality_reason |-> OrElse(DictGet(obj, "quality_reason", JNull), JStr("")),
                   raw |-> g.text,
                   evidence |-> Evidence(rt, db, rag)]]

FinalParsed(rt, db, rag, g, obj) ==
    FinalAnswer(rt, db, rag, g, obj, FloatOrZero(DictGet(obj, "quality_score", JNum(0))))

FinalFromText(rt, db, rag, g) == FinalParsed(rt, db, rag, g, ObjOrEmpty(g.text))

phase4_final(rt, db, rag, resp) == FinalFromText(rt, db, rag, generate_completion(resp))

\* ------------------------------------------------------------------------
\* Orchestrator: run_pipeline
\* ------------------------------------------------------------------------
\* Branch274 testing route != "db" instead
Branch274_NotDb(r) == IF r # "db" THEN "L275" ELSE "L279"

\* line 274: if route["route"] in ("rag", "both")
Branch274(r) == IF r \in {"rag", "both"} THEN "L275" ELSE "L279"

\* Branch271 without the "not ok" test
Branch271_AlwaysFallback(r, ok) == IF r = "db" THEN "L272" ELSE Branch274(r)

\* Branch271 without the route test
Branch271_AnyRoute(r, ok) == IF ~ok THEN "L272" ELSE Branch274(r)

\* line 271: if route["route"] == "db" and not db_out.get("ok")
Branch271(r, ok) == IF r = "db" /\ ~ok THEN "L272" ELSE Branch274(r)

\* Branch268 sending route rag to the query phase as well
Branch268_RagToo(r) == IF r \in {"db", "rag", "both"} THEN "L269" ELSE Branch274(r)

\* line 268: if route["route"] in ("db", "both")
Branch268(r) == IF r \in {"db", "both"} THEN "L269" ELSE Branch274(r)

\* After with a handler around the phase call that goes on regardless
After_Swallowed(e, next) == next

\* run_pipeline has no try/except: an exception leaving a phase call leaves
\* run_pipeline, otherwise control goes on to `next`
After(e, next) == IF e # "none" THEN "raised" ELSE next

NoEnvelope ==
    [some |-> FALSE, answer |-> JNull, citations |-> JNull, mode |-> "",
     quality_score |-> 0, quality_reason |-> JNull,
     debug |-> [route |-> NoRoute, db_out |-> NoDb, rag_out |-> NoRag,
                final_notes |-> JNull, final_raw |-> <<>>,
                evidence |-> Evidence(NoRoute, NoDb, NoRag)]]

\* the dict run_pipeline returns (elapsed_ms left out)
Envelope(rt, db, rag, fin) ==
    [some |-> TRUE, answer |-> fin.answer, citations |-> fin.citations, mode |-> rt.route,
     quality_score |-> fin.quality_score, quality_reason |-> fin.quality_reason,
     debug |-> [route |-> rt, db_out |-> db, rag_out |-> rag,
                final_notes |-> fin.notes, final_raw |-> fin.raw,
                evidence |-> fin.evidence]]

VARIABLES
    pc,        \* where run_pipeline stands: the line it is about to run
    route,     \* the RouteDecision of phase 1
    db_out,    \* the result of phase 2, or None
    rag_out,   \* the result of phase 3, or None
    final,     \* the result of phase 4
    envelope,  \* what run_pipeline returned
    exc,       \* the exception that left run_pipeline, "none" otherwise
    trace,     \* the phases called in this run, in call order
    calls,     \* generate_completion calls made in this run
    store,     \* the transactions table
    lastExec,  \* the statement this run handed to the engine, the rows
               \* fetchall() returned for it or the exception it raised
    retrieved, \* what retrieve_context returned in this run
    open_conns \* store connections opened by phase2_db and not closed

\* Calls of the helper functions on their own, outside a run
VARIABLES
    parse_in,  \* the text handed to safe_json_loads: prefix, object, suffix
    parse_out, \* what safe_json_loads returned for the object alone and embedded
    cite_in,   \* the metadata list handed to format_citations
    cite_out,  \* what format_citations returned
    gen_in,    \* the backend response generate_completion got
    gen_out,   \* what generate_completion returned
    boot       \* the CSV file and what the calls of bootstrap_db did so far

helpers == <<parse_in, parse_out, cite_in, cite_out, gen_in, gen_out, boot>>

runVars ==
    <<pc, route, db_out, rag_out, final, envelope, exc, trace, calls, store, lastExec,
      retrieved, open_conns>>

vars == <<runVars, helpers>>

NoHits == [some |-> FALSE, hits |-> <<>>]

NoParseIn == [prefix |-> <<>>, members |-> <<>>, suffix |-> <<>>]

NoParseOut == [some |-> FALSE, alone |-> NoObj, embedded |-> NoObj]

NoCiteOut == [some |-> FALSE, cites |-> <<>>]

NoGenIn == Response(FALSE, FALSE, <<>>, <<>>, FALSE, <<>>)

NoGenOut == [some |-> FALSE, exc |-> "none", text |-> <<>>]

\* no call of bootstrap_db yet, over the CSV `csv`
NoBoot(csv) == [csv |-> csv, calls |-> 0, force |-> FALSE, found |-> 0, loaded |-> 0]

\* no run started
Idle ==
    /\ pc = "L262"
    /\ route = NoRoute
    /\ db_out = NoDb
    /\ rag_out = NoRag
    /\ final = NoFinal
    /\ envelope = NoEnvelope
    /\ exc = "none"
    /\ trace = <<>>
    /\ calls = 0
    /\ lastExec = NoExec
    /\ retrieved = NoHits

Init ==
    /\ Idle
    /\ store = CsvTable
    /\ open_conns = 0
    /\ boot = NoBoot(CsvTable.rows)
    /\ parse_in = NoParseIn
    /\ parse_out = NoParseOut
    /\ cite_in = <<>>
    /\ cite_out = NoCiteOut
    /\ gen_in = NoGenIn
    /\ gen_out = NoGenOut

\* line 262: route = phase1_route(question)
Phase1Route ==
    /\ pc = "L262"
    /\ \E resp \in Responses(RouterTexts) :
         \E r \in {phase1_route(resp)} :
         /\ trace' = Append(trace, "phase1_route")
         /\ calls' = calls + 1
         /\ exc' = r.exc
         /\ route' = r.val
         /\ pc' = After(r.exc, Branch268(r.val.route))
    /\ UNCHANGED <<db_out, rag_out, final, envelope, store, lastExec, retrieved, open_conns,
                   helpers>>

\* connections phase2_db may hold open at once in the model
MaxOpen == 1

\* with get_connection(db_path) as conn: leaving the block commits or rolls
\* back and does not close, and phase2_db never calls conn.close().  The
\* connection it opened is closed only when the runtime finalizes the
\* unreferenced object: at return under reference counting, later or never
\* otherwise.  The connections left open by a call that opened one
\* (`opened`) when n are open already:
ConnectionsLeft(opened, n) == IF opened /\ n < MaxOpen THEN {0, 1} ELSE {0}

\* line 269: db_out = phase2_db(question, db_path=db_path)
Phase2Db ==
    /\ pc = "L269"
    /\ \E resp \in Responses(QueryTexts) :
         \E r \in phase2_db(resp, store) :
           /\ trace' = Append(trace, "phase2_db")
           /\ calls' = calls + 1
           /\ exc' = r.exc
           /\ db_out' = r.val
           /\ store' = r.store
           /\ lastExec' = r.exec
           /\ pc' = After(r.exc, Branch271(route.route, r.val.ok))
           /\ \E left \in ConnectionsLeft(r.exec.some, open_conns) :
                open_conns' = open_conns + left
    /\ UNCHANGED <<route, rag_out, final, envelope, retrieved, helpers>>

\* rag_out = phase3_rag(question, rag, k=k), at line 272 or at line 275
CallPhase3(next) ==
    \E hits \in HitLists, resp \in Responses(RagTexts) :
      \E r \in {phase3_rag(hits, resp)} :
      /\ trace' = Append(trace, "phase3_rag")
      /\ calls' = calls + r.calls
      /\ exc' = r.exc
      /\ rag_out' = r.val
      /\ retrieved' = [some |-> TRUE, hits |-> hits]
      /\ pc' = After(r.exc, next)
      /\ UNCHANGED <<route, db_out, final, envelope, store, lastExec, open_conns, helpers>>

\* line 272: the fallback of route db
Phase3Fallback == pc = "L272" /\ CallPhase3(Branch274(route.route))

\* line 275
Phase3Rag == pc = "L275" /\ CallPhase3("L279")

\* line 279: final = phase4_final(question, route, db_out=db_out, rag_out=rag_out)
Phase4Final ==
    /\ pc = "L279"
    /\ \E resp \in Responses(FinalTexts) :
         \E r \in {phase4_final(route, db_out, rag_out, resp)} :
         /\ trace' = Append(trace, "phase4_final")
         /\ calls' = calls + 1
         /\ exc' = r.exc
         /\ final' = r.val
         /\ pc' = After(r.exc, "L282")
    /\ UNCHANGED <<route, db_out, rag_out, envelope, store, lastExec, retrieved, open_conns,
                   helpers>>

\* lines 281-297: the envelope is built and returned
Return ==
    /\ pc = "L282"
    /\ envelope' = Envelope(route, db_out, rag_out, final)
    /\ pc' = "returned"
    /\ UNCHANGED <<route, db_out, rag_out, final, exc, trace, calls, store, lastExec,
                   retrieved, open_conns, helpers>>

\* the front-end takes the next question: a new run over the same store
NewQuestion ==
    /\ pc \in {"returned", "raised"}
    /\ pc' = "L262"
    /\ route' = NoRoute
    /\ db_out' = NoDb
    /\ rag_out' = NoRag
    /\ final' = NoFinal
    /\ envelope' = NoEnvelope
    /\ exc' = "none"
    /\ trace' = <<>>
    /\ calls' = 0
    /\ lastExec' = NoExec
    /\ retrieved' = NoHits
    /\ UNCHANGED <<store, open_conns, helpers>>

Next ==
    \/ Phase1Route
    \/ Phase2Db
    \/ Phase3Fallback
    \/ Phase3Rag
    \/ Phase4Final
    \/ Return
    \/ NewQuestion

Spec == Init /\ [][Next]_vars

\* ------------------------------------------------------------------------
\* safe_json_loads on its own: an object alone, and inside surrounding text
\* ------------------------------------------------------------------------
\* longest prefix and suffix put around the object
MaxWrap == 2

\* what the model may write around a JSON payload: words, blanks, and stray
\* braces and brackets
ProseTokens == {TXT, WS, LB, RB, LSQ, RSQ}

Wraps == UNION {[1..n -> ProseTokens] : n \in 0..MaxWrap}

\* the members of the well-formed objects parsed
ObjectMembers ==
    {<<>>,
     <<Mem("route", JStr("db"))>>,
     <<Mem("route", JStr("rag")), Mem("confidence", JNum(5))>>}

ParserInit ==
    /\ Idle
    /\ store = CsvTable
    /\ open_conns = 0
    /\ boot = NoBoot(CsvTable.rows)
    /\ parse_in \in [prefix : Wraps, members : ObjectMembers, suffix : Wraps]
    /\ parse_out = NoParseOut
    /\ cite_in = <<>>
    /\ cite_out = NoCiteOut
    /\ gen_in = NoGenIn
    /\ gen_out = NoGenOut

\* obj = safe_json_loads(raw), for the object's text and for the text around it
ApplyParser ==
    /\ ~parse_out.some
    /\ parse_out' =
          [some |-> TRUE,
           alone |-> safe_json_loads(Object(parse_in.members)),
           embedded |-> safe_json_loads(parse_in.prefix \o Object(parse_in.members)
                                        \o parse_in.suffix)]
    /\ UNCHANGED <<runVars, parse_in, cite_in, cite_out, gen_in, gen_out, boot>>

ParserNext == ApplyParser

SpecParser == ParserInit /\ [][ParserNext]_vars

\* ------------------------------------------------------------------------
\* format_citations on its own
\* ------------------------------------------------------------------------
\* longest metadata list handed to format_citations
MaxHits == 3

\* metadata of a retrieved chunk: a source name or none, a 0-based page or none
Metas ==
    {Hit("chunk", src, pg[1], pg[2]) :
        src \in {"", "a.pdf", "a.pdf p.1"},
        pg \in {<<FALSE, 0>>, <<TRUE, 0>>, <<TRUE, 1>>}}

CitationInit ==
    /\ Idle
    /\ store = CsvTable
    /\ open_conns = 0
    /\ boot = NoBoot(CsvTable.rows)
    /\ parse_in = NoParseIn
    /\ parse_out = NoParseOut
    /\ cite_in \in UNION {[1..n -> Metas] : n \in 0..MaxHits}
    /\ cite_out = NoCiteOut
    /\ gen_in = NoGenIn
    /\ gen_out = NoGenOut

\* sources = format_citations([m for _, m in hits])
ApplyFormatCitations ==
    /\ ~cite_out.some
    /\ cite_out' = [some |-> TRUE, cites |-> format_citations(cite_in)]
    /\ UNCHANGED <<runVars, parse_in, parse_out, cite_in, gen_in, gen_out, boot>>

CitationNext == ApplyFormatCitations

SpecCitation == CitationInit /\ [][CitationNext]_vars

\* ------------------------------------------------------------------------
\* generate_completion on its own
\* ------------------------------------------------------------------------
\* what a field of the first message can hold: nothing, blanks, or a text
\* of its own with or without blanks around it
FieldTexts(mark) ==
    {<<>>, <<WS>>, <<Val(JStr(mark))>>, <<WS, Val(JStr(mark)), WS>>}

BackendResponses ==
    {Response(throws, choices, content, reasoning, tool, args) :
        throws \in BOOLEAN, choices \in BOOLEAN,
        content \in FieldTexts("content"), reasoning \in FieldTexts("reasoning"),
        tool \in BOOLEAN, args \in FieldTexts("arguments")}

ClientInit ==
    /\ Idle
    /\ store = CsvTable
    /\ open_conns = 0
    /\ boot = NoBoot(CsvTable.rows)
    /\ parse_in = NoParseIn
    /\ parse_out = NoParseOut
    /\ cite_in = <<>>
    /\ cite_out = NoCiteOut
    /\ gen_in \in BackendResponses
    /\ gen_out = NoGenOut

\* raw = generate_completion(messages, ...)
ApplyGenerateCompletion ==
    /\ ~gen_out.some
    /\ \E g \in {generate_completion(gen_in)} :
         gen_out' = [some |-> TRUE, exc |-> g.exc, text |-> g.text]
    /\ UNCHANGED <<runVars, parse_in, parse_out, cite_in, cite_out, gen_in, boot>>

ClientNext == ApplyGenerateCompletion

SpecClient == ClientInit /\ [][ClientNext]_vars

\* ------------------------------------------------------------------------
\* bootstrap_db called again and again on one store file and one CSV
\* ------------------------------------------------------------------------
\* calls of bootstrap_db followed
MaxBoots == 8

\* rows per chunk of pd.read_csv(csv_path, chunksize=chunksize)
ChunkSize == 3

\* the store file before the first bootstrap: no table
NoStore == [exists |-> FALSE, rows |-> <<>>]

\* CREATE TABLE IF NOT EXISTS transactions (...)
init_schema(st) == IF st.exists THEN st ELSE [exists |-> TRUE, rows |-> <<>>]

\* the loop of load_csv_to_sqlite: chunk.to_sql(..., if_exists="append")
RECURSIVE LoadChunks(_, _, _)
LoadChunks(rows, csv, i) ==
    IF i > Len(csv) THEN rows
    ELSE LoadChunks(rows \o SubSeq(csv, i, Min(i + ChunkSize - 1, Len(csv))),
                    csv, i + ChunkSize)

load_csv_to_sqlite(st, csv) == [st EXCEPT !.rows = LoadChunks(st.rows, csv, 1)]

\* if force_reload: DELETE FROM transactions
ClearIfForced(st, force) == IF force THEN [st EXCEPT !.rows = <<>>] ELSE st

\* LoadIfEmpty without the row count
LoadIfEmpty_Always(st, csv) == load_csv_to_sqlite(st, csv)

\* n = SELECT COUNT(1); if n == 0: load_csv_to_sqlite(conn, csv_path)
LoadIfEmpty(st, csv) == IF Len(st.rows) = 0 THEN load_csv_to_sqlite(st, csv) ELSE st

\* bootstrap_db(db_path, csv_path, force_reload): the table afterwards
bootstrap_db(st, csv, force) == LoadIfEmpty(ClearIfForced(init_schema(st), force), csv)

BootstrapInit ==
    /\ Idle
    /\ store = NoStore
    /\ open_conns = 0
    /\ parse_in = NoParseIn
    /\ parse_out = NoParseOut
    /\ cite_in = <<>>
    /\ cite_out = NoCiteOut
    /\ gen_in = NoGenIn
    /\ gen_out = NoGenOut
    /\ boot \in {NoBoot([i \in 1..n |-> i]) : n \in 0..CsvRows}

\* one call of bootstrap_db, with or without force_reload
Bootstrap ==
    /\ boot.calls < MaxBoots
    /\ \E force \in BOOLEAN :
         \E before \in {ClearIfForced(init_schema(store), force)} :
         \E after \in {bootstrap_db(store, boot.csv, force)} :
           /\ store' = after
           /\ boot' = [csv |-> boot.csv, calls |-> boot.calls + 1, force |-> force,
                        found |-> Len(before.rows),
                        loaded |-> Len(after.rows) - Len(before.rows)]
    /\ UNCHANGED <<pc, route, db_out, rag_out, final, envelope, exc, trace, calls, lastExec,
                   retrieved, open_conns, parse_in, parse_out, cite_in, cite_out, gen_in,
                   gen_out>>

BootstrapNext == Bootstrap

SpecBootstrap == BootstrapInit /\ [][BootstrapNext]_vars

\* ------------------------------------------------------------------------
\* Properties
\* ------------------------------------------------------------------------
P1 == "phase1_route"

P2 == "phase2_db"

P3 == "phase3_rag"

P4 == "phase4_final"

Count(seq, x) == Cardinality({i \in 1..Len(seq) : seq[i] = x})

\* the route field the router text of this run carries, "both" when absent
RawRoute == DictGet(ObjOrEmpty(route.raw), "route", JStr("both"))

\* the router text of this run is malformed or out of the enumeration
RouterFallback ==
    \/ ~safe_json_loads(route.raw).some
    \/ DictGet(ObjOrEmpty(route.raw), "route", JNull) = JNull
    \/ ~(RawRoute.t = "str" /\ RawRoute.s \in Routes)

\* a RouteDecision has been returned in this run
Routed == route # NoRoute

\* C1: every statement phase2_db hands to the store and the store runs is a
\* read-only SELECT, whatever the model put in the sql field.
C1_OnlySelectExecuted ==
    (lastExec.some /\ lastExec.ran) =>
        (lastExec.sql.t = "str" /\ SqlKind(lastExec.sql.s) = "select")

\* C2: after any sequence of runs the transactions table is what it was
\* before the first run.
C2_StoreUnchanged == store = CsvTable

\* C3: the only failure that leaves run_pipeline is a failure of the
\* generation client; malformed fields of generated output never do.
C3_OnlyBackendFailureEscapes == pc = "raised" => exc = "BackendError"

\* C4: the route of a returned RouteDecision is one of db, rag, both, general,
\* it is the generated route when that is one of the four and both otherwise,
\* and the mode of a returned envelope is that route.
C4_RouteInEnum ==
    /\ Routed => /\ route.route \in Routes
                 /\ route.route = IF RawRoute.t = "str" /\ RawRoute.s \in Routes
                                  THEN RawRoute.s ELSE "both"
    /\ (pc \notin {"L262", "raised"}) => Routed
    /\ envelope.some => (Routed /\ envelope.mode = route.route /\ envelope.mode \in Routes)

\* a run came back with an out-of-enum generated route coerced to both
C4_Witness ==
    /\ pc = "returned" /\ envelope.some
    /\ RawRoute = JStr("sql")
    /\ envelope.mode = "both"

\* C5: on route db the query phase runs, retrieval runs exactly when the query
\* result is not ok, after the query phase and before composition, and once.
C5_DbFallback ==
    route.route = "db" =>
        /\ trace \in {<<P1>>, <<P1, P2>>, <<P1, P2, P3>>, <<P1, P2, P4>>,
                      <<P1, P2, P3, P4>>}
        /\ (Count(trace, P3) = 1) => (db_out.some /\ ~db_out.ok)
        /\ (Count(trace, P4) = 1 /\ Count(trace, P3) = 0) => (db_out.some /\ db_out.ok)
        /\ (pc = "L272") => (trace = <<P1, P2>> /\ db_out.some /\ ~db_out.ok)
        /\ (pc \in {"L279", "L282", "returned"}) =>
               /\ db_out.some
               /\ Count(trace, P2) = 1
               /\ Count(trace, P3) = (IF db_out.ok THEN 0 ELSE 1)
               /\ rag_out.some = ~db_out.ok
        /\ (pc \notin {"L262", "L269", "raised"}) => db_out.some

\* a db run whose statement the store rejected fell back to retrieval and
\* went on to return
C5_Witness ==
    /\ pc = "returned" /\ route.route = "db"
    /\ db_out.error.some
    /\ trace = <<P1, P2, P3, P4>>

\* C6: on route rag the query phase never runs, also when retrieval finds
\* nothing, and the composer gets no query evidence.
C6_RagNeverQueries ==
    route.route = "rag" =>
        /\ trace \in {<<P1>>, <<P1, P3>>, <<P1, P3, P4>>}
        /\ ~db_out.some
        /\ ~lastExec.some
        /\ final.some => (~final.evidence.db.some /\ final.evidence.route = "rag")
        /\ envelope.some => ~envelope.debug.db_out.some

\* a rag run with zero hits returned without a query attempt
C6_Witness ==
    /\ pc = "returned" /\ route.route = "rag"
    /\ rag_out.some /\ ~rag_out.ok
    /\ trace = <<P1, P3, P4>>

\* C7: on route both the query phase and then the retrieval phase run, each
\* once, retrieval starting after the query phase returned, whatever the
\* query result was.
C7_BothSequential ==
    route.route = "both" =>
        /\ trace \in {<<P1>>, <<P1, P2>>, <<P1, P2, P3>>, <<P1, P2, P3, P4>>}
        /\ (pc = "L275") => (trace = <<P1, P2>> /\ db_out.some)
        /\ (trace = <<P1, P2>> /\ pc # "raised") => pc = "L275"
        /\ (pc \in {"L279", "L282", "returned"}) =>
               /\ db_out.some /\ rag_out.some
               /\ Count(trace, P2) = 1 /\ Count(trace, P3) = 1
        /\ (pc = "L269") => trace = <<P1>>

\* a both run whose query result was not ok ran retrieval once and returned
C7_Witness ==
    /\ pc = "returned" /\ route.route = "both"
    /\ db_out.some /\ ~db_out.ok
    /\ rag_out.some /\ rag_out.ok
    /\ trace = <<P1, P2, P3, P4>>

\* C8: on route general neither the query phase nor the retrieval phase runs,
\* the store gets no statement, and the composer gets neither result.
C8_GeneralDirect ==
    route.route = "general" =>
        /\ trace \in {<<P1>>, <<P1, P4>>}
        /\ (trace = <<P1>> /\ pc # "raised") => pc = "L279"
        /\ ~db_out.some /\ ~rag_out.some
        /\ ~lastExec.some
        /\ final.some => (~final.evidence.db.some /\ ~final.evidence.rag.some)
        /\ envelope.some => (~envelope.debug.db_out.some /\ ~envelope.debug.rag_out.some)

\* a general run returned after router and composer alone
C8_Witness ==
    /\ pc = "returned" /\ route.route = "general"
    /\ trace = <<P1, P4>>
    /\ envelope.some

\* C9: a run in which the generation client did not throw ends with the
\* router first and once, the composer last and once, query and retrieval at
\* most once in between, and at most four generation calls.
C9_RouterFirstComposerLast ==
    (pc \in {"returned", "raised"} /\ exc # "BackendError") =>
        /\ trace[1] = P1 /\ Count(trace, P1) = 1
        /\ trace[Len(trace)] = P4 /\ Count(trace, P4) = 1
        /\ Count(trace, P2) <= 1 /\ Count(trace, P3) <= 1
        /\ calls <= 4

\* C10: a returned RouteDecision whose router text was malformed or out of
\* the enumeration has route both, confidence 0.0 and reason "fallback".
C10_FallbackDecision ==
    (Routed /\ RouterFallback) =>
        /\ route.route = "both"
        /\ route.confidence = 0
        /\ route.reason = JStr("fallback")

\* the citations field of the composer text of this run, null when absent
RawCitations == DictGet(ObjOrEmpty(final.raw), "citations", JNull)

\* the retrieval result of this run carries sources
HasSources == rag_out.some /\ rag_out.sources # <<>>

\* the composer text of this run failed structured extraction
ComposerUnparsed == final.some /\ ~safe_json_loads(final.raw).some

\* C11: on route general the citations of the final answer and of the
\* envelope are empty, whatever text the composer returned.
C11_GeneralNoCitations ==
    route.route = "general" =>
        /\ final.some => final.citations = JList(<<>>)
        /\ envelope.some => envelope.citations = JList(<<>>)

\* C12: non-empty composer citations are returned as they are, also when the
\* retrieval sources differ; empty or missing ones are replaced by the
\* retrieval sources when there are any; nothing else is ever returned.
C12_BackfillNeverOverwrites ==
    final.some =>
        /\ Truthy(RawCitations) => final.citations = RawCitations
        /\ (~Truthy(RawCitations) /\ HasSources) =>
               final.citations = JList(rag_out.sources)
        /\ (~Truthy(RawCitations) /\ ~HasSources) => final.citations = JList(<<>>)
        /\ final.citations \in {RawCitations, JList(rag_out.sources), JList(<<>>)}
        /\ envelope.some => envelope.citations = final.citations

\* the composer cited a document retrieval did not return, retrieval had
\* sources of its own, and the composer's list came back untouched
C12_Witness ==
    /\ pc = "returned" /\ envelope.some
    /\ HasSources
    /\ RawCitations = JList(<<"Other.pdf p.9">>)
    /\ RawCitations # JList(rag_out.sources)
    /\ envelope.citations = RawCitations

\* C13 as stated: a composer text that fails extraction gives the apology,
\* an empty citations list and score 0.0, whatever the route and evidence.
C13_ParseFailureDefaults ==
    ComposerUnparsed =>
        /\ final.answer = JStr(Apology)
        /\ final.citations = JList(<<>>)
        /\ final.quality_score = 0

\* C13: a composer text that fails extraction gives the apology and score
\* 0.0, and the citations are the retrieval sources when the retrieval
\* result carries any and the empty list otherwise.
C13_ParseFailureDefaultsThenBackfill ==
    ComposerUnparsed =>
        /\ final.answer = JStr(Apology)
        /\ final.quality_score = 0
        /\ final.citations = IF HasSources THEN JList(rag_out.sources) ELSE JList(<<>>)

\* a prose composer text after a retrieval that carried sources
C13_Witness ==
    /\ pc = "returned" /\ envelope.some
    /\ ComposerUnparsed
    /\ HasSources
    /\ envelope.answer = JStr(Apology)
    /\ envelope.citations = JList(rag_out.sources)

\* C14: the quality_score of the final answer and of the envelope lies in
\* [0,1] (scores are in tenths), whatever the composer put in the field.
C14_ScoreInUnitInterval ==
    /\ final.some => (0 <= final.quality_score /\ final.quality_score <= 10)
    /\ envelope.some => (0 <= envelope.quality_score /\ envelope.quality_score <= 10)

\* C15: a query result with ok = true has a preview of at most 50 rows, the
\* first min(n, 50) of the n rows the statement returned, in their order
\* (the store's order for a plain SELECT), a non-null sql and a null error.
C15_PreviewIsFirstFifty ==
    (db_out.some /\ db_out.ok) =>
        /\ lastExec.some /\ lastExec.exc = "none"
        /\ db_out.rows_preview.some
        /\ Len(db_out.rows_preview.rows) <= 50
        /\ Len(db_out.rows_preview.rows) = Min(Len(lastExec.rows), 50)
        /\ \A i \in 1..Len(db_out.rows_preview.rows) :
               db_out.rows_preview.rows[i] = lastExec.rows[i]
        /\ (lastExec.sql = JStr(SelectAll)) => lastExec.rows = store.rows
        /\ db_out.sql # JNull
        /\ ~db_out.error.some

\* a statement returned more than 50 rows and the run came back with a
\* preview of exactly 50
C15_Witness ==
    /\ pc = "returned" /\ envelope.some
    /\ db_out.some /\ db_out.ok
    /\ Len(lastExec.rows) > 50
    /\ Len(envelope.debug.db_out.rows_preview.rows) = 50

\* the whole text handed to safe_json_loads in the embedded call
Embedded == parse_in.prefix \o Object(parse_in.members) \o parse_in.suffix

HasToken(seq, c) == \E i \in 1..Len(seq) : seq[i].c = c

CitationOf(m) ==
    IF m.hasPage
    THEN (IF m.source = "" THEN "document" ELSE m.source) \o " p." \o ToString(m.page + 1)
    ELSE (IF m.source = "" THEN "document" ELSE m.source)

\* the first place of citation c among the citations of the input
FirstAt(c) ==
    CHOOSE a \in 1..Len(cite_in) :
        /\ CitationOf(cite_in[a]) = c
        /\ \A b \in 1..(a - 1) : CitationOf(cite_in[b]) # c

\* C17: format_citations returns the citations of its input without
\* duplicates, none missing and none added, in order of first appearance.
C17_DedupFirstSeen ==
    cite_out.some =>
        /\ \A i, j \in 1..Len(cite_out.cites) :
               i # j => cite_out.cites[i] # cite_out.cites[j]
        /\ {cite_out.cites[i] : i \in 1..Len(cite_out.cites)}
               = {CitationOf(cite_in[a]) : a \in 1..Len(cite_in)}
        /\ \A i, j \in 1..Len(cite_out.cites) :
               i < j => FirstAt(cite_out.cites[i]) < FirstAt(cite_out.cites[j])

\* three hits, the first and the last of the same page, and a second of
\* another document in between: two citations, in that order
C17_Witness ==
    /\ cite_out.some
    /\ Len(cite_in) = 3
    /\ cite_in[1] = cite_in[3] /\ cite_in[1] # cite_in[2]
    /\ cite_in[1] = Hit("chunk", "a.pdf", TRUE, 1)
    /\ cite_in[2] = Hit("chunk", "", FALSE, 0)
    /\ cite_out.cites = <<"a.pdf p.2", "document">>

Last(seq) == seq[Len(seq)]

\* a run the generation client's failure ended: it stands raised, with no
\* result of the failing phase, no final answer unless the composer itself
\* never ran, and no envelope
C18_State ==
    exc = "BackendError" =>
        /\ pc = "raised"
        /\ ~envelope.some
        /\ ~final.some
        /\ trace # <<>>
        /\ (Last(trace) = P1) => (trace = <<P1>> /\ ~Routed)
        /\ (Last(trace) = P2) => ~db_out.some
        /\ (Last(trace) = P3) => ~rag_out.some
        /\ (Last(trace) # P4) => Count(trace, P4) = 0

\* nothing of a raised run goes on: the next step is a new question
C18_Step == (pc = "raised") => (pc' = "L262" /\ trace' = <<>> /\ ~envelope'.some)

\* C18: a failure thrown by the generation client in any phase leaves
\* run_pipeline: no later phase runs, the composer is not run after a failure
\* of an earlier phase, and no envelope is returned for the run.
C18_ClientFailurePropagates == []C18_State /\ [][C18_Step]_vars

\* the client threw in the query phase of a both run: retrieval and
\* composer did not run
C18_Witness ==
    /\ exc = "BackendError" /\ pc = "raised"
    /\ route.route = "both"
    /\ trace = <<P1, P2>>
    /\ ~envelope.some

\* C19: no envelope comes back from a run in which a generation call got a
\* response with no extractable text.
C19_BlankResponseIsFailure ==
    envelope.some =>
        /\ route.raw # <<>>
        /\ final.raw # <<>>
        /\ db_out.some => db_out.raw # <<>>
        /\ rag_out.raw.some => rag_out.raw.text # <<>>

\* the sql field of the query text of this run, null when absent
RawSql == DictGet(ObjOrEmpty(db_out.raw), "sql", JNull)

\* C20: a query text without sql gives ok = false, sql, rows_preview and
\* error null, and nothing handed to the store; an error is only ever set
\* for a statement the store rejected.
C20_UnsupportedIsNotError ==
    db_out.some =>
        /\ (RawSql = JNull) =>
               /\ ~db_out.ok
               /\ db_out.sql = JNull
               /\ ~db_out.rows_preview.some
               /\ ~db_out.error.some
               /\ ~lastExec.some
        /\ db_out.error.some =>
               /\ ~db_out.ok
               /\ lastExec.some /\ ~lastExec.ran
               /\ db_out.sql # JNull /\ db_out.sql = lastExec.sql
        /\ (~db_out.ok /\ ~db_out.error.some) => (~Truthy(RawSql) /\ ~lastExec.some)

\* a run whose query model declared the question unsupported
C20_Witness ==
    /\ pc = "returned" /\ envelope.some
    /\ safe_json_loads(db_out.raw).some
    /\ RawSql = JNull
    /\ db_out.notes = JStr("UNSUPPORTED: requires external data")
    /\ ~db_out.ok /\ ~db_out.error.some /\ ~lastExec.some

\* the store raised sqlite3.Error on the statement of this run
StoreRejected == lastExec.some /\ lastExec.exc = "sqlite3.Error"

\* C21: a statement the store rejects gives ok = false with the attempted
\* sql and error "SQL error: <the store's message>"; the run goes on to the
\* next phase, and the envelope it returns carries that result unchanged
\* after the composer ran.
C21_RejectedStatementReported ==
    StoreRejected =>
        /\ db_out.some /\ ~db_out.ok
        /\ db_out.sql = lastExec.sql /\ db_out.sql.t = "str"
        /\ db_out.error = [some |-> TRUE, msg |-> "SQL error: " \o lastExec.msg]
        /\ ~db_out.rows_preview.some
        /\ (trace = <<P1, P2>>) => (exc = "none" /\ pc \in {"L272", "L275"})
        /\ (pc = "raised") => Last(trace) \in {P3, P4}
        /\ final.some => final.evidence.db.error = db_out.error
        /\ (pc = "returned") =>
               /\ Last(trace) = P4 /\ final.some
               /\ envelope.some
               /\ envelope.debug.db_out = db_out
               /\ envelope.debug.db_out.sql = lastExec.sql
               /\ envelope.debug.db_out.error.msg = "SQL error: " \o lastExec.msg

\* a both run whose statement had a syntax error came back with the error
\* in its debug trace
C21_Witness ==
    /\ pc = "returned" /\ envelope.some
    /\ route.route = "both"
    /\ lastExec.sql = JStr(SelectBad)
    /\ envelope.debug.db_out.sql = JStr(SelectBad)
    /\ envelope.debug.db_out.error.msg = "SQL error: near \"SELEC\": syntax error"
    /\ trace = <<P1, P2, P3, P4>>

\* generation calls the retrieval phase of this run made
RetrievalCalls == calls - Count(trace, P1) - Count(trace, P2) - Count(trace, P4)

\* C22: with zero hits phase3_rag returns ok = false, context "", sources
\* [], answer null and the "No relevant context retrieved" note without a
\* generation call; with a hit it makes one generation call and returns
\* ok = true with context and sources, the answer null when the generated
\* text fails extraction.
C22_RetrievalDecidesOk ==
    retrieved.some =>
        /\ Count(trace, P3) = 1
        /\ (retrieved.hits = <<>>) =>
               /\ RetrievalCalls = 0
               /\ rag_out = [some |-> TRUE, ok |-> FALSE, context |-> "", sources |-> <<>>,
                              answer |-> JNull,
                              notes |-> JStr("No relevant context retrieved"),
                              raw |-> NoRaw]
        /\ (retrieved.hits # <<>>) =>
               /\ RetrievalCalls = 1
               /\ rag_out.some =>
                      /\ rag_out.ok
                      /\ rag_out.context # "" /\ rag_out.context = JoinTexts(retrieved.hits)
                      /\ rag_out.sources # <<>>
                      /\ \A i \in 1..Len(retrieved.hits) :
                             \E j \in 1..Len(rag_out.sources) :
                                rag_out.sources[j] = CitationOf(retrieved.hits[i])
                      /\ rag_out.raw.some
                      /\ ~safe_json_loads(rag_out.raw.text).some => rag_out.answer = JNull
               /\ ~rag_out.some => (exc = "BackendError" /\ Last(trace) = P3)

\* retrieval found chunks, the answer model wrote prose, and the run came
\* back with ok = true, the sources and a null answer
C22_Witness ==
    /\ pc = "returned" /\ envelope.some
    /\ Len(retrieved.hits) = 3
    /\ ~safe_json_loads(rag_out.raw.text).some /\ rag_out.raw.text # <<>>
    /\ envelope.debug.rag_out.ok
    /\ envelope.debug.rag_out.answer = JNull
    /\ envelope.debug.rag_out.sources = <<"Bhatla.pdf p.3", "summary.md">>

NonBlank(text) == \E i \in 1..Len(text) : text[i].c # "ws"

\* the text is `field` without the blanks at its ends
TrimOf(text, field) ==
    /\ text # <<>>
    /\ text[1].c # "ws" /\ text[Len(text)].c # "ws"
    /\ \E a, b \in 1..Len(field) :
          /\ text = SubSeq(field, a, b)
          /\ \A i \in 1..Len(field) : (i < a \/ i > b) => field[i].c = "ws"

\* C23: generate_completion returns the trimmed content when it is not
\* blank, else the trimmed reasoning field when that is not blank, else the
\* trimmed arguments of the first tool call when there is one and they are
\* not blank, else the empty string; what it returns is empty or has no
\* blank at either end.
C23_ExtractionPriority ==
    (gen_out.some /\ gen_out.exc = "none" /\ gen_in.choices) =>
        /\ NonBlank(gen_in.content) => TrimOf(gen_out.text, gen_in.content)
        /\ (~NonBlank(gen_in.content) /\ NonBlank(gen_in.reasoning)) =>
               TrimOf(gen_out.text, gen_in.reasoning)
        /\ (~NonBlank(gen_in.content) /\ ~NonBlank(gen_in.reasoning)
               /\ gen_in.tool /\ NonBlank(gen_in.args)) =>
               TrimOf(gen_out.text, gen_in.args)
        /\ (~NonBlank(gen_in.content) /\ ~NonBlank(gen_in.reasoning)
               /\ ~(gen_in.tool /\ NonBlank(gen_in.args))) =>
               gen_out.text = <<>>
        /\ gen_out.text = <<>>
             \/ (gen_out.text[1].c # "ws" /\ gen_out.text[Len(gen_out.text)].c # "ws")

\* blank content, a padded reasoning field and tool-call arguments: the
\* reasoning text came back without its padding
C23_Witness ==
    /\ gen_out.some /\ gen_in.choices /\ ~gen_in.throws
    /\ gen_in.content = <<WS>>
    /\ gen_in.reasoning = <<WS, Val(JStr("reasoning")), WS>>
    /\ gen_in.tool /\ gen_in.args = <<Val(JStr("arguments"))>>
    /\ gen_out.text = <<Val(JStr("reasoning"))>>

\* C24: after any number of calls of bootstrap_db on one store and one CSV
\* the table holds the CSV's rows, each once; a call that found rows loaded
\* nothing, and a call with force_reload found none after clearing and
\* loaded the whole CSV.
C24_BootstrapIdempotent ==
    boot.calls > 0 =>
        /\ store.exists
        /\ store.rows = boot.csv
        /\ boot.found > 0 => boot.loaded = 0
        /\ boot.force => (boot.found = 0 /\ boot.loaded = Len(boot.csv))
        /\ (Len(boot.csv) = CsvRows) => store = CsvTable

\* the third call on a loaded store was a forced reload of a CSV of
\* several chunks, and the table holds the CSV once
C24_Witness ==
    /\ boot.calls = 3 /\ boot.force
    /\ Len(boot.csv) = CsvRows /\ CsvRows > ChunkSize
    /\ boot.loaded = CsvRows
    /\ store = CsvTable

\* C25: the evidence of phase4_final has a db entry exactly when the run
\* produced a query result and a rag entry exactly when it produced a
\* retrieval result.
C25_EvidenceOmitsAbsentBranch ==
    final.some =>
        /\ ("db" \in final.evidence.keys) <=> db_out.some
        /\ ("rag" \in final.evidence.keys) <=> rag_out.some

\* C26: when the whole trimmed text parses to something that is not an
\* object, safe_json_loads returns what the window from the first "{" to the
\* last "}" gives.
C26_WindowAfterNonObject ==
    (/\ parse_out.some
     /\ JsonLoads(Strip(Embedded)).ok
     /\ ~JsonLoads(Strip(Embedded)).dict) =>
        parse_out.embedded =
            BraceWindow(Strip(Embedded), Find(Strip(Embedded), "{", 1),
                        RFind(Strip(Embedded), "}", Len(Strip(Embedded))))

\* the sql field of the query text of this run is an empty or blank string
RawSqlBlank == RawSql.t = "str" /\ RawSql.s \in {"", BlankSql}

\* C27: the sql of a query result is null or not blank; an empty or blank
\* generated sql is not executed and gives the unsupported result.
C27_SqlNeverBlank ==
    /\ db_out.some =>
           (db_out.sql = JNull \/ (db_out.sql.t = "str" /\ db_out.sql.s \notin {"", BlankSql}))
    /\ (Count(trace, P2) = 1 /\ RawSqlBlank) =>
           /\ ~lastExec.some
           /\ db_out.some /\ ~db_out.ok /\ db_out.sql = JNull

\* C28: no store connection opened by phase2_db is open once it has
\* returned, whatever the runs so far.
C28_NoConnectionLeftOpen == open_conns = 0
====
